---- MODULE Spec2Model ----
(***************************************************************************)
(* A model of src/app.py: the pitch-deck intake (upload, classification,   *)
(* confirmation) and the memo generation request, over the record store,   *)
(* the uploads folder and the outputs folder.                              *)
(*                                                                         *)
(* Texts are sequences of lexemes.  A file name is its sequence of         *)
(* segments (<<"acme", "_", "deck", ".pdf">>), a startup name likewise     *)
(* (<<"Acme">>, the empty string is <<>>), a memo is the sequence of the   *)
(* section headings it holds, and a classifier response is a sequence of   *)
(* JSON lexemes.  A column that was never assigned (NULL) is <<>>.         *)
(***************************************************************************)
EXTENDS Naturals, Sequences, FiniteSets

VARIABLES db, uploads, outputs, pc, loc, resp, cin, cout

vars == <<db, uploads, outputs, pc, loc, resp, cin, cout>>

(***************************************************************************)
(* Bounds of the model.                                                    *)
(***************************************************************************)
MaxRecords == 2
MaxLen == 5

NULL == <<>>

(***************************************************************************)
(* Lexemes of a classifier response.  A member lexeme is one               *)
(* "key": "value" pair of an object together with its separator.           *)
(***************************************************************************)
LB == "{"
RB == "}"
LS == "["
RS == "]"
WS == " "
JUNK == "not json"
MName == "\"name\": \"Acme\""
MIndOk == "\"industry\": \"SaaS\""
MIndBad == "\"industry\": \"Crypto\""

Members == {MName, MIndOk, MIndBad}
Tokens == {LB, RB, LS, RS, WS, JUNK} \cup Members

MemberKey(t) == IF t = MName THEN "name" ELSE "industry"
MemberVal(t) ==
    CASE t = MName -> <<"Acme">>
      [] t = MIndOk -> "SaaS"
      [] OTHER -> "Crypto"

\* The labels the prompt lists.
Taxonomy ==
    {"Fintech", "HealthTech", "Biotech", "SaaS", "AI/ML", "DeepTech",
     "E-commerce", "ClimateTech", "Clean Energy", "Mobility", "Logistics",
     "EdTech", "Cybersecurity", "Gaming", "Agritech", "PropTech", "Other"}

Responses == UNION {[1..n -> Tokens] : n \in 0..MaxLen}

(***************************************************************************)
(* str.strip(): leading and trailing whitespace removed.                   *)
(***************************************************************************)
RECURSIVE lstrip(_)
lstrip(s) == IF s # <<>> /\ Head(s) = WS THEN lstrip(Tail(s)) ELSE s

RECURSIVE rstrip(_)
rstrip(s) ==
    IF s # <<>> /\ s[Len(s)] = WS THEN rstrip(SubSeq(s, 1, Len(s) - 1)) ELSE s

strip(s) == rstrip(lstrip(s))

(***************************************************************************)
(* json.loads(): whitespace between lexemes is skipped; the text is one    *)
(* value, an object of members or a list of values; anything else raises.  *)
(***************************************************************************)
SkipWS(s) == SelectSeq(s, LAMBDA t : t # WS)

IsObject(t) ==
    /\ Len(t) >= 2
    /\ t[1] = LB
    /\ t[Len(t)] = RB
    /\ \A i \in 2..(Len(t) - 1) : t[i] \in Members

RECURSIVE IsValue(_), IsValues(_)
IsValue(t) ==
    \/ IsObject(t)
    \/ /\ Len(t) >= 2
       /\ t[1] = LS
       /\ t[Len(t)] = RS
       /\ IsValues(SubSeq(t, 2, Len(t) - 1))
IsValues(t) ==
    \/ t = <<>>
    \/ \E k \in 1..Len(t) :
          IsValue(SubSeq(t, 1, k)) /\ IsValues(SubSeq(t, k + 1, Len(t)))

json_loads(s) ==
    LET t == SkipWS(s) IN
    IF IsObject(t)
    THEN [raised |-> FALSE, kind |-> "dict", members |-> SubSeq(t, 2, Len(t) - 1)]
    ELSE IF IsValue(t)
    THEN [raised |-> FALSE, kind |-> "list", members |-> <<>>]
    ELSE [raised |-> TRUE, kind |-> "none", members |-> <<>>]

\* dict.get(key, default): of a repeated key json.loads keeps the last value.
dict_get(members, key, default) ==
    LET at == {i \in 1..Len(members) : MemberKey(members[i]) = key} IN
    IF at = {} THEN default
    ELSE MemberVal(members[CHOOSE i \in at : \A j \in at : j <= i])

(***************************************************************************)
(* re.search(r"\{.*\}", content, re.DOTALL): the leftmost position where   *)
(* a match starts, and from there the longest match.  re_search_lazy is    *)
(* the pattern with a lazy quantifier: the shortest match.                 *)
(***************************************************************************)
re_search_lazy(content) ==
    LET starts == {i \in 1..Len(content) :
                      /\ content[i] = LB
                      /\ \E j \in (i + 1)..Len(content) : content[j] = RB}
    IN IF starts = {} THEN [found |-> FALSE, group |-> <<>>]
       ELSE LET i == CHOOSE a \in starts : \A b \in starts : a <= b
                ends == {j \in (i + 1)..Len(content) : content[j] = RB}
                j == CHOOSE a \in ends : \A b \in ends : a <= b
            IN [found |-> TRUE, group |-> SubSeq(content, i, j)]

re_search(content) ==
    LET starts == {i \in 1..Len(content) :
                      /\ content[i] = LB
                      /\ \E j \in (i + 1)..Len(content) : content[j] = RB}
    IN IF starts = {} THEN [found |-> FALSE, group |-> <<>>]
       ELSE LET i == CHOOSE a \in starts : \A b \in starts : a <= b
                ends == {j \in (i + 1)..Len(content) : content[j] = RB}
                j == CHOOSE a \in ends : \A b \in ends : b <= a
            IN [found |-> TRUE, group |-> SubSeq(content, i, j)]

(***************************************************************************)
(* extract_startup_info, from the completion's text on: what it returns    *)
(* and whether it printed the raw response.                                *)
(***************************************************************************)
extract_startup_info(raw) ==
    LET content == strip(raw)
        direct == json_loads(content)
        match == re_search(content)
        data == json_loads(match.group)
    IN IF ~direct.raised /\ direct.kind = "dict"
       THEN [name |-> dict_get(direct.members, "name", <<>>),
             industry |-> dict_get(direct.members, "industry", ""),
             printed |-> FALSE]
       ELSE IF match.found /\ ~data.raised /\ data.kind = "dict"
       THEN [name |-> dict_get(data.members, "name", <<>>),
             industry |-> dict_get(data.members, "industry", ""),
             printed |-> FALSE]
       ELSE [name |-> <<>>, industry |-> "", printed |-> TRUE]

(***************************************************************************)
(* Files.                                                                  *)
(***************************************************************************)
NoFile == <<>>
AcmeDeck == <<"acme", "_", "deck", ".pdf">>
UploadNames == {<<"acme", " ", "deck", ".pdf">>, <<"notes", ".txt">>}

\* str.endswith(".pdf")
endswith_pdf(f) == f # <<>> /\ f[Len(f)] = ".pdf"

\* werkzeug's secure_filename: whitespace becomes an underscore.
secure_filename(f) == [i \in 1..Len(f) |-> IF f[i] = " " THEN "_" ELSE f[i]]

StoredNames == {secure_filename(f) : f \in {g \in UploadNames : endswith_pdf(g)}}

\* extract_text: fitz.open raises on a missing or unparseable file.
extract_text(ups, path) ==
    IF path \in DOMAIN ups /\ ups[path] = "valid"
    THEN [raised |-> FALSE, text |-> "deck text"]
    ELSE [raised |-> TRUE, text |-> ""]

(***************************************************************************)
(* The inference service: a completion raises or returns a text.           *)
(***************************************************************************)
ApiError == [raised |-> TRUE, content |-> <<>>]
Completion(content) == [raised |-> FALSE, content |-> content]

(***************************************************************************)
(* Responses of the routes: the status, what was rendered or raised, the   *)
(* name and industry the confirmation form is filled with, and the memo    *)
(* the result page shows.                                                  *)
(***************************************************************************)
Response(route, status, cause) ==
    [route |-> route, status |-> status, cause |-> cause,
     name |-> <<>>, industry |-> "", memo |-> <<>>]

NoResp == Response("none", 0, "none")

(***************************************************************************)
(* upload_pitchdeck: the response and the uploads folder after it.         *)
(***************************************************************************)
upload_pitchdeck(method, file, valid, completion, ups) ==
    IF method # "POST"
    THEN [resp |-> Response("upload", 200, "form"), uploads |-> ups]
    ELSE IF file = NoFile \/ ~endswith_pdf(file)
    THEN [resp |-> Response("upload", 400, "not a pdf"), uploads |-> ups]
    ELSE LET filename == secure_filename(file)
             saved == [ups EXCEPT ![filename] = IF valid THEN "valid" ELSE "invalid"]
             deck == extract_text(saved, filename)
         IN IF deck.raised
            THEN [resp |-> Response("upload", 500, "extract"), uploads |-> saved]
            ELSE IF completion.raised
            THEN [resp |-> Response("upload", 500, "inference"), uploads |-> saved]
            ELSE LET info == extract_startup_info(completion.content)
                 IN [resp |-> [Response("upload", 200, "confirm") EXCEPT
                                  !.name = info.name, !.industry = info.industry],
                     uploads |-> saved]

(***************************************************************************)
(* The Startup table.  The primary key of a row is its position in db.     *)
(***************************************************************************)
Startup(name, industry, assigned_gp, contact_person, deck_file) ==
    [name |-> name, industry |-> industry, stage |-> NULL,
     assigned_gp |-> assigned_gp, contact_person |-> contact_person,
     founders |-> NULL, arr |-> NULL, funding |-> NULL, valuation |-> NULL,
     gp_notes |-> NULL, score_market |-> NULL, score_product |-> NULL,
     score_traction |-> NULL, score_team |-> NULL, score_competition |-> NULL,
     score_scalability |-> NULL, score_exit |-> NULL, overall_score |-> NULL,
     status |-> "Submitted", memo_pdf |-> NULL, deck_file |-> deck_file]

\* session_commit with the first assigned attribute flushed alone.
session_commit_first_only(d, sid, dirty) ==
    [d EXCEPT ![sid].memo_pdf = dirty.memo_pdf]

\* session_commit with the UPDATE applied to every row.
session_commit_every_row(d, sid, dirty) ==
    [id \in 1..Len(d) |-> [c \in DOMAIN d[id] |->
                             IF c \in DOMAIN dirty THEN dirty[c] ELSE d[id][c]]]

\* db.session.commit() of the attributes a request assigned to row sid.
session_commit(d, sid, dirty) ==
    [d EXCEPT ![sid] = [c \in DOMAIN d[sid] |->
                           IF c \in DOMAIN dirty THEN dirty[c] ELSE d[sid][c]]]

(***************************************************************************)
(* confirm_startup: the row is added and committed, or the commit fails.   *)
(***************************************************************************)
confirm_startup(d, form, commit_ok) ==
    IF commit_ok
    THEN [resp |-> Response("confirm", 302, "dashboard"),
          db |-> Append(d, Startup(form.name, form.industry, form.assigned_gp,
                                   form.contact_person, form.filename))]
    ELSE [resp |-> Response("confirm", 500, "commit"), db |-> d]

(***************************************************************************)
(* generate_memo: one completion for the whole memo.  The prompt lists     *)
(* the sections; the text returned is stored as it is.                     *)
(***************************************************************************)
SectionTitles ==
    <<"Executive Summary", "Industry Landscape", "Pain Points",
      "Competitive Landscape", "Comparator Table", "White Space Opportunities",
      "Benchmarks & Multiples", "GTM Strategy", "ROI Evidence",
      "Regulatory Readiness", "Exit Paths", "Quantitative Scoring Matrix">>

Texts == {SectionTitles, SubSeq(SectionTitles, 1, 2)}

generate_memo(completion) ==
    [raised |-> completion.raised, memo_text |-> completion.content]

\* f"{startup.name}_memo.pdf"
output_filename(name) == name \o <<"_memo.pdf">>

(***************************************************************************)
(* generate_memo_for_startup, in three steps: up to the rendered HTML      *)
(* (the row loaded, the deck read, the memo generated), the PDF written    *)
(* to the outputs folder, the row updated and committed.  loc holds the    *)
(* request's local variables between the steps.                            *)
(***************************************************************************)
NoLocals == [sid |-> 0, name |-> <<>>, memo_text |-> <<>>]

\* gen_prepare with the row marked as being processed before its deck is read.
gen_prepare_marking(d, ups, sid, completion) ==
    IF sid \notin 1..Len(d)
    THEN [resp |-> Response("generate_memo", 404, "not found"),
          pc |-> "ready", loc |-> NoLocals, db |-> d]
    ELSE IF d[sid].deck_file = <<>>
    THEN [resp |-> Response("generate_memo", 400, "no deck"),
          pc |-> "ready", loc |-> NoLocals, db |-> d]
    ELSE LET marked == [d EXCEPT ![sid].status = "Generating"]
         IN IF extract_text(ups, d[sid].deck_file).raised
            THEN [resp |-> Response("generate_memo", 500, "extract"),
                  pc |-> "ready", loc |-> NoLocals, db |-> marked]
            ELSE IF completion.raised
            THEN [resp |-> Response("generate_memo", 500, "inference"),
                  pc |-> "ready", loc |-> NoLocals, db |-> marked]
            ELSE [resp |-> NoResp, pc |-> "write_pdf",
                  loc |-> [sid |-> sid, name |-> d[sid].name,
                           memo_text |-> completion.content],
                  db |-> marked]

gen_prepare(d, ups, sid, completion) ==
    IF sid \notin 1..Len(d)
    THEN [resp |-> Response("generate_memo", 404, "not found"),
          pc |-> "ready", loc |-> NoLocals, db |-> d]
    ELSE IF d[sid].deck_file = <<>>
    THEN [resp |-> Response("generate_memo", 400, "no deck"),
          pc |-> "ready", loc |-> NoLocals, db |-> d]
    ELSE IF extract_text(ups, d[sid].deck_file).raised
    THEN [resp |-> Response("generate_memo", 500, "extract"),
          pc |-> "ready", loc |-> NoLocals, db |-> d]
    ELSE LET memo == generate_memo(completion)
         IN IF memo.raised
            THEN [resp |-> Response("generate_memo", 500, "inference"),
                  pc |-> "ready", loc |-> NoLocals, db |-> d]
            ELSE [resp |-> NoResp, pc |-> "write_pdf",
                  loc |-> [sid |-> sid, name |-> d[sid].name,
                           memo_text |-> memo.memo_text],
                  db |-> d]

gen_write_pdf(outs, l, render_ok) ==
    IF render_ok
    THEN [resp |-> NoResp, pc |-> "commit", loc |-> l,
          outputs |-> [outs EXCEPT ![output_filename(l.name)] = l.memo_text]]
    ELSE [resp |-> Response("generate_memo", 500, "render"),
          pc |-> "ready", loc |-> NoLocals, outputs |-> outs]

gen_commit(d, l, commit_ok) ==
    LET dirty == [memo_pdf |-> output_filename(l.name), gp_notes |-> l.memo_text]
    IN IF commit_ok
       THEN [resp |-> [Response("generate_memo", 200, "result") EXCEPT
                          !.memo = l.memo_text],
             db |-> session_commit(d, l.sid, dirty)]
       ELSE [resp |-> Response("generate_memo", 500, "commit"),
             db |-> d]

(***************************************************************************)
(* The state machine.  One memo generation is in flight at a time (pc,     *)
(* loc); uploads and confirmations are served at any moment, between its   *)
(* steps too.  resp is the response the server returned last.              *)
(***************************************************************************)
Names == {<<"Acme">>, <<"Beta">>}
DeckRefs == {<<>>, AcmeDeck}
OutputNames == {output_filename(n) : n \in Names}
Forms ==
    [name : Names, industry : {"SaaS"}, assigned_gp : {<<"gp">>},
     contact_person : {<<"contact">>}, filename : DeckRefs]
SampleResponses ==
    {<<JUNK>>, <<LB, MName, MIndOk, RB>>}

NoInput == [file |-> NoFile, valid |-> FALSE, completion |-> ApiError]

\* The requests to /upload: the form, a POST without a PDF, a POST of an
\* unreadable PDF, and a POST of a readable one with each completion.
UploadInputs ==
    {[method |-> "GET", file |-> NoFile, valid |-> FALSE, completion |-> ApiError]}
    \cup [method : {"POST"}, file : UploadNames \cup {NoFile},
          valid : {FALSE}, completion : {ApiError}]
    \cup [method : {"POST"}, file : {f \in UploadNames : endswith_pdf(f)},
          valid : {TRUE},
          completion : {ApiError} \cup {Completion(c) : c \in SampleResponses}]

Init ==
    /\ db = <<>>
    /\ uploads = [f \in StoredNames |-> "absent"]
    /\ outputs = [f \in OutputNames |-> NULL]
    /\ pc = "ready"
    /\ loc = NoLocals
    /\ resp = NoResp
    /\ cin = NoInput
    /\ cout = NoResp

\* upload_pitchdeck on each request and each state of the uploads folder.
UploadsStates == [StoredNames -> {"absent", "valid", "invalid"}]
UploadOutcome ==
    [input \in UploadInputs, ups \in UploadsStates |->
        upload_pitchdeck(input.method, input.file, input.valid,
                         input.completion, ups)]

Upload ==
    /\ \E input \in UploadInputs :
          LET r == UploadOutcome[input, uploads]
          IN /\ resp' = r.resp
             /\ uploads' = r.uploads
    /\ UNCHANGED <<db, outputs, pc, loc, cin, cout>>

Confirm ==
    /\ Len(db) < MaxRecords
    /\ \E form \in Forms, commit_ok \in BOOLEAN :
          LET r == confirm_startup(db, form, commit_ok)
          IN /\ resp' = r.resp
             /\ db' = r.db
    /\ UNCHANGED <<uploads, outputs, pc, loc, cin, cout>>

GenPrepare ==
    /\ pc = "ready"
    /\ \E sid \in 1..MaxRecords,
          completion \in {ApiError} \cup {Completion(t) : t \in Texts} :
          LET r == gen_prepare(db, uploads, sid, completion)
          IN /\ resp' = (IF r.pc = "ready" THEN r.resp ELSE resp)
             /\ pc' = r.pc
             /\ loc' = r.loc
             /\ db' = r.db
    /\ UNCHANGED <<uploads, outputs, cin, cout>>

GenWritePdf ==
    /\ pc = "write_pdf"
    /\ \E render_ok \in BOOLEAN :
          LET r == gen_write_pdf(outputs, loc, render_ok)
          IN /\ resp' = (IF r.pc = "ready" THEN r.resp ELSE resp)
             /\ pc' = r.pc
             /\ loc' = r.loc
             /\ outputs' = r.outputs
    /\ UNCHANGED <<db, uploads, cin, cout>>

GenCommit ==
    /\ pc = "commit"
    /\ \E commit_ok \in BOOLEAN :
          LET r == gen_commit(db, loc, commit_ok)
          IN /\ resp' = r.resp
             /\ db' = r.db
    /\ pc' = "ready"
    /\ loc' = NoLocals
    /\ UNCHANGED <<uploads, outputs, cin, cout>>

Next ==
    \/ Upload
    \/ Confirm
    \/ GenPrepare
    \/ GenWritePdf
    \/ GenCommit

Spec == Init /\ [][Next]_vars

(***************************************************************************)
(* The classifier on every response of at most MaxLen lexemes: one POST    *)
(* of a file to /upload, with the completion the service returns.          *)
(***************************************************************************)
InitClassify ==
    /\ db = <<>>
    /\ uploads = [f \in StoredNames |-> "absent"]
    /\ outputs = [f \in OutputNames |-> NULL]
    /\ pc = "ready"
    /\ loc = NoLocals
    /\ resp = NoResp
    /\ cin \in [file : {AcmeDeck}, valid : {TRUE},
                completion : {Completion(c) : c \in Responses}]
    /\ cout = NoResp

ClassifyUpload ==
    /\ cout = NoResp
    /\ LET r == upload_pitchdeck("POST", cin.file, cin.valid, cin.completion, uploads)
       IN /\ cout' = r.resp
          /\ uploads' = r.uploads
    /\ UNCHANGED <<db, outputs, pc, loc, resp, cin>>

NextClassify == ClassifyUpload

SpecClassify == InitClassify /\ [][NextClassify]_vars

(***************************************************************************)
(* Properties.                                                             *)
(***************************************************************************)
Rows == 1..Len(db)

\* C1: every memo generation that reaches the inference call returns a
\* document with one entry per section title, in order, whether or not the
\* call fails: the request's response carries the twelve sections.
C1_AssembleReturnsEverySection ==
    (resp.route = "generate_memo" /\ resp.cause \in {"inference", "result"})
        => resp.memo = SectionTitles

\* C2: an error raised by the inference call during memo generation is
\* caught and the memo generation request itself does not fail.
C2_InferenceErrorDoesNotFailRequest ==
    (resp.route = "generate_memo" /\ resp.cause = "inference")
        => resp.status = 200

\* C3: the industry label the classifier returns is a member of the fixed
\* taxonomy, which holds the sentinel "Other".
C3_IndustryInTaxonomy ==
    cout.cause = "confirm" => cout.industry \in Taxonomy

\* The spec's filename hint: the extension dropped, separators as spaces.
filename_hint(file) ==
    [i \in 1..(Len(file) - 1) |-> IF file[i] = "_" THEN " " ELSE file[i]]

\* A response that does not parse and holds no bracketed substring that does.
Malformed(content) ==
    /\ json_loads(content).raised
    /\ \A i, j \in 1..Len(content) :
          (i < j /\ content[i] = LB /\ content[j] = RB)
              => json_loads(SubSeq(content, i, j)).raised

\* C4: a malformed classifier response yields, without raising, the pair
\* (filename hint, "Other").
C4_MalformedGivesHintAndOther ==
    (cout # NoResp /\ Malformed(cin.completion.content))
        => /\ cout.status = 200
           /\ cout.name = filename_hint(cin.file)
           /\ cout.industry = "Other"

\* C5: a step that changes a row's memo body or its artifact reference is
\* the commit of the generation request for that row and sets both to that
\* request's values: no state holds one new and one stale.
C5_BodyAndReferenceTogether ==
    [][\A id \in Rows :
          (db'[id].gp_notes # db[id].gp_notes \/ db'[id].memo_pdf # db[id].memo_pdf)
              => /\ pc = "commit"
                 /\ loc.sid = id
                 /\ db'[id].gp_notes = loc.memo_text
                 /\ db'[id].memo_pdf = output_filename(loc.name)]_vars

\* A regeneration failed at its commit after the artifact was rewritten, and
\* the row holds the earlier body and reference.
C5_Witness ==
    /\ resp.route = "generate_memo"
    /\ resp.cause = "commit"
    /\ \E id \in Rows :
          /\ db[id].gp_notes # NULL
          /\ db[id].memo_pdf # NULL
          /\ outputs[db[id].memo_pdf] # db[id].gp_notes

\* C6: when rendering the generated memo to a PDF fails, the generated memo
\* text is persisted on the row.
C6_TextPersistedWhenRenderFails ==
    [][(pc = "write_pdf" /\ pc' = "ready")
          => db'[loc.sid].gp_notes = loc.memo_text]_vars

\* C7: two distinct rows never reference the same rendered artifact.
C7_ArtifactsDistinct ==
    \A a, b \in Rows :
        (a # b /\ db[a].memo_pdf # NULL) => db[a].memo_pdf # db[b].memo_pdf

\* C8: a request whose text extraction fails is answered with an error and
\* leaves the record store as it was, and a memo generation goes on only
\* when the deck of its row was read.
C8_ExtractionFailureLeavesStore ==
    [][/\ (resp' # resp /\ resp'.cause = "extract")
             => (db' = db /\ resp'.status = 500 /\ pc' = pc)
       /\ (pc = "ready" /\ pc' = "write_pdf")
             => ~extract_text(uploads, db[loc'.sid].deck_file).raised]_vars

\* A memo generation failed on reading the deck of an existing row.
C8_Witness ==
    /\ resp.route = "generate_memo"
    /\ resp.cause = "extract"
    /\ db # <<>>

\* C9: no step deletes a row or changes a column other than the memo body
\* and the artifact reference, and the commit of a generation changes no
\* row but its own.
C9_OnlyMemoColumnsOfOwnRow ==
    [][/\ Len(db') >= Len(db)
       /\ \A id \in Rows :
             db[id] = [db'[id] EXCEPT !.gp_notes = db[id].gp_notes,
                                      !.memo_pdf = db[id].memo_pdf]
       /\ (pc = "commit" /\ pc' = "ready")
             => /\ Len(db') = Len(db)
                /\ \A id \in Rows : id # loc.sid => db'[id] = db[id]]_vars

\* A generation succeeded for one of two rows and the other has no memo.
C9_Witness ==
    /\ resp.route = "generate_memo"
    /\ resp.cause = "result"
    /\ \E a, b \in Rows :
          /\ db[a].gp_notes # NULL
          /\ db[b].gp_notes = NULL
          /\ db[b].memo_pdf = NULL

\* The substring from the first opening brace to the last closing brace.
Outermost(content) ==
    LET lbs == {i \in 1..Len(content) : content[i] = LB}
        rbs == {j \in 1..Len(content) : content[j] = RB}
        first == CHOOSE i \in lbs : \A k \in lbs : i <= k
        last == CHOOSE j \in rbs : \A k \in rbs : k <= j
    IN IF lbs # {} /\ rbs # {} /\ first < last
       THEN [found |-> TRUE, text |-> SubSeq(content, first, last)]
       ELSE [found |-> FALSE, text |-> <<>>]

NameAndIndustry(obj) ==
    <<dict_get(obj.members, "name", <<>>), dict_get(obj.members, "industry", "")>>

\* C10 as stated: the substring is parsed only if the parse of the whole
\* response fails.
C10_SubstringOnlyIfWholeParseRaises ==
    cout.cause = "confirm" =>
        LET content == cin.completion.content
            whole == json_loads(content)
            sub == Outermost(content)
            inner == json_loads(sub.text)
        IN <<cout.name, cout.industry>> =
              IF ~whole.raised
              THEN IF whole.kind = "dict" THEN NameAndIndustry(whole)
                   ELSE <<<<>>, "">>
              ELSE IF sub.found /\ inner.kind = "dict" THEN NameAndIndustry(inner)
              ELSE <<<<>>, "">>

\* C10: the name and industry are those of the whole response when it
\* parses to an object; otherwise those of the substring from the first
\* opening brace to the last closing brace when that parses to an object;
\* otherwise the classification has failed and both are empty.
C10_ParseOrder ==
    cout.cause = "confirm" =>
        LET content == cin.completion.content
            whole == json_loads(content)
            sub == Outermost(content)
            inner == json_loads(sub.text)
        IN <<cout.name, cout.industry>> =
              IF whole.kind = "dict" THEN NameAndIndustry(whole)
              ELSE IF sub.found /\ inner.kind = "dict" THEN NameAndIndustry(inner)
              ELSE <<<<>>, "">>

\* The whole response did not parse and the name came from the substring.
C10_Witness ==
    /\ cout.cause = "confirm"
    /\ json_loads(cin.completion.content).raised
    /\ cout.name = <<"Acme">>

====
